---- MODULE Spec2Model ----
(***************************************************************************)
(* A model of the notebook                                                 *)
(*   examples/vector_databases/chroma/hyde-with-chroma-and-openai.ipynb    *)
(* Its functions (filter_query_result, assess_claims,                      *)
(* assess_claims_with_context, hallucinate_evidence, get_groundtruth,      *)
(* confusion_matrix), the batched loading loop and the evaluation cells.   *)
(*                                                                         *)
(* Conventions.  Python lists are sequences (index k of Python is k+1      *)
(* here).  A distance is an integer number of hundredths (0.25 is 25).     *)
(* A text returned by the chat model is a sequence of tokens; a token is   *)
(* a word or one punctuation / whitespace character.  A query result is an *)
(* object on the heap: names of the notebook hold references to it, so a   *)
(* mutation through one name is seen through every other name.             *)
(***************************************************************************)
EXTENDS Integers, Sequences, FiniteSets, TLC

VARIABLES
    heap,                \* query-result objects by reference (1..Len(heap))
    f_pc,                \* filter_query_result call: "idle", "call", "returned"
    f_query_result,      \* its parameter query_result (a reference)
    f_distance_threshold,\* its parameter distance_threshold
    f_before,            \* the object as it was when the call was made
    f_ret,               \* the reference the call returned (0: none yet)
    cm_pc,               \* confusion_matrix call: "idle", "call", "returned", "raised"
    cm_inferred,         \* its parameter inferred
    cm_groundtruth,      \* its parameter groundtruth
    cm_ret,              \* what the call returned, or the exception it raised
    gt_pc,               \* get_groundtruth call: "idle", "call", "returned"
    gt_evidence,         \* its parameter evidence
    gt_ret,              \* the list it returned
    l_pc,                \* the loading loop: "idle", "loop", "done"
    corpus_df,           \* the rows of the corpus
    l_i,                 \* the next value of range(0, len(corpus_df), batch_size)
    adds,                \* the calls of scifact_corpus_collection.add, in order
    a_pc,                \* a function that queries the chat model: "idle", "loop",
                         \* "returned", "raised"
    a_fn,                \* which one: assess_claims, assess_claims_with_context or
                         \* hallucinate_evidence
    a_claims,            \* its parameter claims
    a_contexts,          \* its parameter contexts (assess_claims_with_context)
    a_k,                 \* iterations of its loop completed
    responses,           \* its local list responses
    calls,               \* the chat-completion calls issued, in order
    a_ret,               \* the list it returned
    claims,              \* the notebook's name claims: the sampled claims
    claim_query_result,           \* names of the notebook that hold a query result:
    filtered_claim_query_result,  \* a reference into heap, 0 while the name is
    hallucinated_query_result,    \* not defined
    filtered_hallucinated_query_result,
    hallucinated_evidence,        \* the name hallucinated_evidence (None: not defined)
    nb_cell              \* the cell that is running ("idle": none)

filterVars == <<heap, f_pc, f_query_result, f_distance_threshold, f_before, f_ret>>
cmVars == <<cm_pc, cm_inferred, cm_groundtruth, cm_ret>>
gtVars == <<gt_pc, gt_evidence, gt_ret>>
loadVars == <<l_pc, corpus_df, l_i, adds>>
chatVars == <<a_pc, a_fn, a_claims, a_contexts, a_k, responses, calls, a_ret>>

nbVars == <<claims, claim_query_result, filtered_claim_query_result,
            hallucinated_query_result, filtered_hallucinated_query_result,
            hallucinated_evidence, nb_cell>>

vars == <<filterVars, cmVars, gtVars, loadVars, chatVars, nbVars>>

(***************************************************************************)
(* Bounds of the model.                                                    *)
(***************************************************************************)
MaxQueries == 2          \* query texts in one query call
MaxLabels == 3           \* length of the lists given to confusion_matrix
MaxEvidence == 2         \* length of the list given to get_groundtruth
MaxCorpus == 201         \* rows of corpus_df
MaxClaims == 2           \* length of the list of claims
NbCorpus == 4            \* rows of the corpus the notebook's cells run on

(***************************************************************************)
(* Program constants.                                                      *)
(***************************************************************************)
n_results == 3                      \* n_results=3 of both query calls
distance_threshold_default == 25    \* distance_threshold=0.25
batch_size == 100                   \* batch_size = 100
max_tokens == 3                     \* max_tokens=3 of the assessment calls

None == "None"

\* The distances the store may report: below, at and above the default threshold.
DistanceValues == 24..26
\* The thresholds a caller passes: the default and a tighter one.
ThresholdValues == {distance_threshold_default, 24}

(***************************************************************************)
(* The corpus: rows of corpus_df (doc_id, title, abstract, structured).    *)
(***************************************************************************)
CorpusRow(j) ==
    [doc_id |-> 4000 + j,
     title |-> "T" \o ToString(j),
     abstract |-> IF j % 2 = 0 THEN <<"a" \o ToString(j)>>
                               ELSE <<"a" \o ToString(j), "b" \o ToString(j)>>,
     structured |-> (j % 3 = 0)]

RECURSIVE Join(_, _)
\* sep.join(parts)
Join(sep, parts) ==
    IF parts = <<>> THEN ""
    ELSE IF Len(parts) = 1 THEN parts[1]
    ELSE parts[1] \o sep \o Join(sep, Tail(parts))

\* str(x) of the ids argument
DocIdString(row) == ToString(row.doc_id)
\* title + '. ' + ' '.join(abstract) of the documents argument
DocumentText(row) == row.title \o ". " \o Join(" ", row.abstract)

(***************************************************************************)
(* filter_query_result                                                     *)
(***************************************************************************)
\* list.pop(i) for a valid index i
PopAt(s, i) == SubSeq(s, 1, i - 1) \o SubSeq(s, i + 1, Len(s))

\* The test of the inner loop: the entry is removed when it holds.
Removed(distance, threshold) == distance > threshold

RECURSIVE FilterFrom(_, _, _)
\* The inner loop, for i in range(len(ids)-1, -1, -1), from index i downwards,
\* on the three lists of one query.
FilterFrom(row, i, threshold) ==
    IF i < 1 THEN row
    ELSE IF Removed(row.distances[i], threshold)
         THEN FilterFrom([ids |-> PopAt(row.ids, i),
                          documents |-> PopAt(row.documents, i),
                          distances |-> PopAt(row.distances, i)], i - 1, threshold)
         ELSE FilterFrom(row, i - 1, threshold)

RECURSIVE ForwardFilterFrom(_, _, _, _)
\* As FilterFrom, with the loop running upwards over range(len(ids)): an index past
\* the end of the shortened lists raises IndexError, which ends the loop.
ForwardFilterFrom(row, i, n, threshold) ==
    IF i > n \/ i > Len(row.distances) THEN row
    ELSE IF Removed(row.distances[i], threshold)
         THEN ForwardFilterFrom([ids |-> PopAt(row.ids, i),
                                 documents |-> PopAt(row.documents, i),
                                 distances |-> PopAt(row.distances, i)], i + 1, n, threshold)
         ELSE ForwardFilterFrom(row, i + 1, n, threshold)

FilterRowForward(row, threshold) == ForwardFilterFrom(row, 1, Len(row.ids), threshold)

\* One iteration of the outer loop: the three lists of one query, filtered.
FilterRow(row, threshold) == FilterFrom(row, Len(row.ids), threshold)

RowOf(obj, q) ==
    [ids |-> obj.ids[q], documents |-> obj.documents[q], distances |-> obj.distances[q]]

\* zip(query_result['ids'], query_result['documents'], query_result['distances'])
ZipLen(obj) ==
    LET a == Len(obj.ids)
        b == Len(obj.documents)
        c == Len(obj.distances)
        ab == IF a < b THEN a ELSE b
    IN  IF ab < c THEN ab ELSE c

\* As Filtered, without docs.pop(i): the ids and the distances are removed, the
\* documents stay.
FilteredDocumentsKept(obj, threshold) ==
    LET n == ZipLen(obj)
        new(q) == FilterRow(RowOf(obj, q), threshold)
    IN  [obj EXCEPT
            !.ids = [q \in DOMAIN obj.ids |-> IF q <= n THEN new(q).ids ELSE obj.ids[q]],
            !.distances = [q \in DOMAIN obj.distances |->
                              IF q <= n THEN new(q).distances ELSE obj.distances[q]]]

\* The object after filter_query_result(query_result, distance_threshold): the lists
\* are changed in place, every other key is left as it is.
Filtered(obj, threshold) ==
    LET n == ZipLen(obj)
        new(q) == FilterRow(RowOf(obj, q), threshold)
    IN  [obj EXCEPT
            !.ids = [q \in DOMAIN obj.ids |-> IF q <= n THEN new(q).ids ELSE obj.ids[q]],
            !.documents = [q \in DOMAIN obj.documents |->
                              IF q <= n THEN new(q).documents ELSE obj.documents[q]],
            !.distances = [q \in DOMAIN obj.distances |->
                              IF q <= n THEN new(q).distances ELSE obj.distances[q]]]

\* The ids and the documents of the first n_results rows of the corpus
ResultIds == [j \in 1..n_results |-> DocIdString(CorpusRow(j))]
ResultDocuments == [j \in 1..n_results |-> DocumentText(CorpusRow(j))]

\* The results of one query text: the first m rows of the corpus with the given distances.
ResultRow(ds) ==
    [ids |-> SubSeq(ResultIds, 1, Len(ds)),
     documents |-> SubSeq(ResultDocuments, 1, Len(ds)),
     distances |-> ds]

DistanceLists == UNION {[1..m -> DistanceValues] : m \in 0..n_results}

\* A query result as the store returns it with include=['documents', 'distances'].
QueryResultOf(rows) ==
    [ids |-> [q \in DOMAIN rows |-> rows[q].ids],
     documents |-> [q \in DOMAIN rows |-> rows[q].documents],
     distances |-> [q \in DOMAIN rows |-> rows[q].distances],
     metadatas |-> None,
     embeddings |-> None]

(***************************************************************************)
(* A call of filter_query_result on its own.                               *)
(***************************************************************************)
IdleFilter ==
    /\ heap = <<>>
    /\ f_pc = "idle"
    /\ f_query_result = 0
    /\ f_distance_threshold = distance_threshold_default
    /\ f_before = None
    /\ f_ret = 0

IdleConfusion == cm_pc = "idle" /\ cm_inferred = <<>> /\ cm_groundtruth = <<>> /\ cm_ret = None

IdleGroundtruth == gt_pc = "idle" /\ gt_evidence = <<>> /\ gt_ret = None

IdleLoad == l_pc = "idle" /\ corpus_df = <<>> /\ l_i = 0 /\ adds = <<>>

IdleChat ==
    /\ a_pc = "idle" /\ a_fn = None /\ a_claims = <<>> /\ a_contexts = <<>>
    /\ a_k = 0 /\ responses = <<>> /\ calls = <<>> /\ a_ret = None

IdleNotebook ==
    /\ claims = <<>>
    /\ claim_query_result = 0 /\ filtered_claim_query_result = 0
    /\ hallucinated_query_result = 0 /\ filtered_hallucinated_query_result = 0
    /\ hallucinated_evidence = None
    /\ nb_cell = "idle"

InitFilter ==
    /\ IdleConfusion /\ IdleGroundtruth /\ IdleLoad /\ IdleChat /\ IdleNotebook
    /\ \E n \in 0..MaxQueries :
          \E dl \in [1..n -> DistanceLists] :
             LET obj == QueryResultOf([q \in 1..n |-> ResultRow(dl[q])])
             IN  heap = <<obj>> /\ f_before = obj
    /\ f_pc = "call"
    /\ f_query_result = 1
    /\ f_distance_threshold \in ThresholdValues
    /\ f_ret = 0

\* The whole call: both loops, then return query_result.
FilterCall ==
    /\ f_pc = "call"
    /\ heap' = [heap EXCEPT ![f_query_result] = Filtered(heap[f_query_result], f_distance_threshold)]
    /\ f_ret' = f_query_result
    /\ f_pc' = "returned"
    /\ UNCHANGED <<f_query_result, f_distance_threshold, f_before>>
    /\ UNCHANGED <<cmVars, gtVars, loadVars, chatVars, nbVars>>

NextFilter == FilterCall

SpecFilter == InitFilter /\ [][NextFilter]_vars

(***************************************************************************)
(* Claims about filter_query_result.                                       *)
(***************************************************************************)
\* zip(ids, documents, distances) of one query, as a list of triples
Triples(obj, q) ==
    [j \in 1..Len(obj.ids[q]) |->
        [id |-> obj.ids[q][j], document |-> obj.documents[q][j], distance |-> obj.distances[q][j]]]

\* C1: after filter_query_result returns, every entry still present has a distance
\* strictly below distance_threshold.
C1_OnlyBelowThresholdRetained ==
    f_pc = "returned" =>
        \A q \in DOMAIN heap[f_ret].distances :
            \A j \in DOMAIN heap[f_ret].distances[q] :
                heap[f_ret].distances[q][j] < f_distance_threshold

PassesTest(t) == ~(t.distance > f_distance_threshold)

\* C9: after filter_query_result returns, for every query the three lists have equal
\* length and their triples are the original triples that pass the threshold test,
\* in their original order.
C9_TriplesAlignedAndExact ==
    f_pc = "returned" =>
        \A q \in DOMAIN f_before.ids :
            /\ Len(heap[f_ret].ids[q]) = Len(heap[f_ret].documents[q])
            /\ Len(heap[f_ret].ids[q]) = Len(heap[f_ret].distances[q])
            /\ Triples(heap[f_ret], q) = SelectSeq(Triples(f_before, q), PassesTest)

\* C9 witness: a returned call in which two adjacent entries failed the test, an
\* entry before them and an entry after them passed, and both kinds were handled.
C9_Witness ==
    /\ f_pc = "returned"
    /\ \E q \in DOMAIN f_before.ids :
          /\ Len(f_before.distances[q]) = 3
          /\ f_before.distances[q][1] > f_distance_threshold
          /\ f_before.distances[q][2] > f_distance_threshold
          /\ f_before.distances[q][3] <= f_distance_threshold
          /\ Len(heap[f_ret].ids[q]) = 1
    /\ \E q \in DOMAIN f_before.ids :
          /\ Len(f_before.distances[q]) = 3
          /\ f_before.distances[q][1] <= f_distance_threshold
          /\ f_before.distances[q][2] > f_distance_threshold
          /\ f_before.distances[q][3] > f_distance_threshold

(***************************************************************************)
(* confusion_matrix                                                        *)
(***************************************************************************)
Labels == {"True", "False", "NEE"}

\* What a list given to confusion_matrix may hold: the labels and another text.
LabelInputs == Labels \cup {"Maybe"}

\* The table confusion as it is created, all counts 0.
EmptyConfusion == [i \in Labels |-> [g \in Labels |-> 0]]

\* confusion[g][i] += 1: the row and the column exchanged
TransposedIncrement(confusion, i, g) == [confusion EXCEPT ![g][i] = @ + 1]

\* confusion[i][g] += 1, for keys the table has
Increment(confusion, i, g) == [confusion EXCEPT ![i][g] = @ + 1]

RECURSIVE Tally(_, _, _, _)
\* for i, g in zip(inferred, groundtruth): confusion[i][g] += 1, from position k on.
\* A key the table does not have raises KeyError.
Tally(confusion, inferred, groundtruth, k) ==
    IF k > Len(inferred) \/ k > Len(groundtruth)
    THEN [raised |-> None, value |-> confusion]
    ELSE IF inferred[k] \notin DOMAIN confusion
              \/ groundtruth[k] \notin DOMAIN confusion[inferred[k]]
         THEN [raised |-> "KeyError", value |-> None]
         ELSE Tally(Increment(confusion, inferred[k], groundtruth[k]),
                    inferred, groundtruth, k + 1)

\* confusion_matrix(inferred, groundtruth): the assertion, the tally, the table
\* returned (the printed text is not modelled).
confusion_matrix(inferred, groundtruth) ==
    IF Len(inferred) # Len(groundtruth)
    THEN [raised |-> "AssertionError", value |-> None]
    ELSE Tally(EmptyConfusion, inferred, groundtruth, 1)

SeqsUpTo(S, n) == UNION {[1..m -> S] : m \in 0..n}

InitConfusion ==
    /\ IdleFilter /\ IdleGroundtruth /\ IdleLoad /\ IdleChat /\ IdleNotebook
    /\ cm_pc = "call"
    /\ cm_inferred \in SeqsUpTo(LabelInputs, MaxLabels)
    /\ cm_groundtruth \in SeqsUpTo(LabelInputs, MaxLabels)
    /\ cm_ret = None

ConfusionCall ==
    /\ cm_pc = "call"
    /\ LET r == confusion_matrix(cm_inferred, cm_groundtruth)
       IN  /\ cm_pc' = IF r.raised = None THEN "returned" ELSE "raised"
           /\ cm_ret' = IF r.raised = None THEN r.value ELSE r.raised
    /\ UNCHANGED <<cm_inferred, cm_groundtruth>>
    /\ UNCHANGED <<filterVars, gtVars, loadVars, chatVars, nbVars>>

NextConfusion == ConfusionCall

SpecConfusion == InitConfusion /\ [][NextConfusion]_vars

IsLabelList(s) == \A k \in DOMAIN s : s[k] \in Labels

\* C3: for two equal-length lists of labels confusion_matrix returns a table with
\* exactly the rows True, False, NEE and the columns True, False, NEE, whose cell
\* [i][g] is the number of positions k with inferred[k] = i and groundtruth[k] = g.
C3_ConfusionCounts ==
    (/\ cm_pc # "call"
     /\ Len(cm_inferred) = Len(cm_groundtruth)
     /\ IsLabelList(cm_inferred)
     /\ IsLabelList(cm_groundtruth)) =>
        /\ cm_pc = "returned"
        /\ DOMAIN cm_ret = Labels
        /\ \A i \in Labels :
              /\ DOMAIN cm_ret[i] = Labels
              /\ \A g \in Labels :
                    cm_ret[i][g] = Cardinality({k \in DOMAIN cm_inferred :
                                                  cm_inferred[k] = i /\ cm_groundtruth[k] = g})

\* C3 witness: a returned table with a count of 2 off the diagonal and a count on it.
C3_Witness ==
    /\ cm_pc = "returned"
    /\ IsLabelList(cm_inferred)
    /\ cm_ret["True"]["NEE"] = 2
    /\ cm_ret["False"]["False"] = 1

(***************************************************************************)
(* get_groundtruth                                                         *)
(***************************************************************************)
\* The evidence of one claim is a dict from a document id to a list of annotations
\* {sentences, label}; here the list of its items in insertion order.  In the
\* dataset all the labels of one claim are the same, SUPPORT or CONTRADICT.
EvidenceLabels == {"SUPPORT", "CONTRADICT"}

Annotation(label, n) == [sentences |-> <<n>>, label |-> label]

EvidenceValues ==
    {<<>>} \cup
    {[d \in 1..nd |-> [doc |-> ToString(4000 + d),
                       annotations |-> [a \in 1..na |-> Annotation(label, a)]]] :
        nd \in 1..2, na \in 1..2, label \in EvidenceLabels}

\* The label of a claim with evidence, the branches exchanged.
SwappedLabel(e) == IF e[1].annotations[1].label = "SUPPORT" THEN "False" ELSE "True"

\* list(e.values())[0][0]['label'] == 'SUPPORT' and its two branches
EvidenceLabel(e) == IF e[1].annotations[1].label = "SUPPORT" THEN "True" ELSE "False"

\* get_groundtruth(evidence)
get_groundtruth(evidence) ==
    [k \in DOMAIN evidence |->
        IF Len(evidence[k]) = 0 THEN "NEE" ELSE EvidenceLabel(evidence[k])]

InitGroundtruth ==
    /\ IdleFilter /\ IdleConfusion /\ IdleLoad /\ IdleChat /\ IdleNotebook
    /\ gt_pc = "call"
    /\ gt_evidence \in SeqsUpTo(EvidenceValues, MaxEvidence)
    /\ gt_ret = None

GroundtruthCall ==
    /\ gt_pc = "call"
    /\ gt_ret' = get_groundtruth(gt_evidence)
    /\ gt_pc' = "returned"
    /\ UNCHANGED gt_evidence
    /\ UNCHANGED <<filterVars, cmVars, loadVars, chatVars, nbVars>>

NextGroundtruth == GroundtruthCall

SpecGroundtruth == InitGroundtruth /\ [][NextGroundtruth]_vars

AllLabelled(e, label) ==
    \A d \in DOMAIN e : \A a \in DOMAIN e[d].annotations : e[d].annotations[a].label = label

\* C5: get_groundtruth returns a list as long as its input whose entry k is NEE if
\* and only if evidence[k] is empty, True if the evidence supports the claim, False
\* if it contradicts it; every entry is one of the three labels.
C5_Groundtruth ==
    gt_pc = "returned" =>
        /\ Len(gt_ret) = Len(gt_evidence)
        /\ \A k \in DOMAIN gt_evidence :
              /\ gt_ret[k] \in Labels
              /\ (gt_ret[k] = "NEE") <=> (gt_evidence[k] = <<>>)
              /\ (gt_evidence[k] # <<>> /\ AllLabelled(gt_evidence[k], "SUPPORT"))
                    => gt_ret[k] = "True"
              /\ (gt_evidence[k] # <<>> /\ AllLabelled(gt_evidence[k], "CONTRADICT"))
                    => gt_ret[k] = "False"

\* C5 witness: a returned list for a supported claim followed by a claim with no evidence.
C5_Witness ==
    /\ gt_pc = "returned"
    /\ Len(gt_evidence) = 2
    /\ gt_evidence[1] # <<>> /\ AllLabelled(gt_evidence[1], "SUPPORT")
    /\ gt_evidence[2] = <<>>
    /\ gt_ret = <<"True", "NEE">>

(***************************************************************************)
(* The batched loading loop.                                               *)
(***************************************************************************)
\* corpus_df[i:i+batch_size-1]: a slice one row short
ShortBatch(df, i) ==
    SubSeq(df, i + 1, IF i + batch_size - 1 < Len(df) THEN i + batch_size - 1 ELSE Len(df))

\* corpus_df[i:i+batch_size]: the rows at the (0-based) positions i .. i+batch_size-1
Batch(df, i) ==
    SubSeq(df, i + 1, IF i + batch_size < Len(df) THEN i + batch_size ELSE Len(df))

\* The arguments of one call of scifact_corpus_collection.add
AddArguments(batch_df) ==
    [ids |-> [j \in DOMAIN batch_df |-> DocIdString(batch_df[j])],
     documents |-> [j \in DOMAIN batch_df |-> DocumentText(batch_df[j])],
     metadatas |-> [j \in DOMAIN batch_df |-> [structured |-> batch_df[j].structured]]]

InitLoad ==
    /\ IdleFilter /\ IdleConfusion /\ IdleGroundtruth /\ IdleChat /\ IdleNotebook
    /\ l_pc = "loop"
    /\ \E n \in 0..MaxCorpus : corpus_df = [j \in 1..n |-> CorpusRow(j)]
    /\ l_i = 0
    /\ adds = <<>>

\* One iteration of for i in range(0, len(corpus_df), batch_size)
LoadBatch ==
    /\ l_pc = "loop"
    /\ l_i < Len(corpus_df)
    /\ adds' = Append(adds, AddArguments(Batch(corpus_df, l_i)))
    /\ l_i' = l_i + batch_size
    /\ UNCHANGED <<l_pc, corpus_df>>
    /\ UNCHANGED <<filterVars, cmVars, gtVars, chatVars, nbVars>>

\* The range is exhausted.
LoadEnd ==
    /\ l_pc = "loop"
    /\ l_i >= Len(corpus_df)
    /\ l_pc' = "done"
    /\ UNCHANGED <<corpus_df, l_i, adds>>
    /\ UNCHANGED <<filterVars, cmVars, gtVars, chatVars, nbVars>>

NextLoad == LoadBatch \/ LoadEnd

SpecLoad == InitLoad /\ [][NextLoad]_vars

RECURSIVE Concat(_, _)
\* The lists of field f of the calls, one after the other.
Concat(cs, f) ==
    IF cs = <<>> THEN <<>> ELSE cs[1][f] \o Concat(Tail(cs), f)

\* C7: when the loop has ended, every row of corpus_df has been passed to add exactly
\* once, in consecutive slices in corpus order, and in each call ids, documents and
\* metadatas have the same length and are those of the same rows.
C7_WholeCorpusLoaded ==
    l_pc = "done" =>
        /\ Concat(adds, "ids") = [j \in DOMAIN corpus_df |-> DocIdString(corpus_df[j])]
        /\ Concat(adds, "documents") = [j \in DOMAIN corpus_df |-> DocumentText(corpus_df[j])]
        /\ Concat(adds, "metadatas") =
              [j \in DOMAIN corpus_df |-> [structured |-> corpus_df[j].structured]]
        /\ \A c \in DOMAIN adds :
              /\ Len(adds[c].ids) = Len(adds[c].documents)
              /\ Len(adds[c].ids) = Len(adds[c].metadatas)
              /\ Len(adds[c].ids) >= 1
              /\ Len(adds[c].ids) <= batch_size
              /\ \A j \in DOMAIN adds[c].ids :
                    LET row == corpus_df[(c - 1) * batch_size + j]
                    IN  /\ adds[c].ids[j] = DocIdString(row)
                        /\ adds[c].documents[j] = DocumentText(row)
                        /\ adds[c].metadatas[j] = [structured |-> row.structured]

\* C7 witness: the loop has ended after two full batches and a last batch of one row.
C7_Witness ==
    /\ l_pc = "done"
    /\ Len(adds) = 3
    /\ Len(adds[1].ids) = batch_size
    /\ Len(adds[2].ids) = batch_size
    /\ Len(adds[3].ids) = 1

(***************************************************************************)
(* The functions that query the chat model: assess_claims,                 *)
(* assess_claims_with_context and hallucinate_evidence.                    *)
(***************************************************************************)
\* The k-th claim of the dataset
ClaimText(k) == "claim " \o ToString(k)

ClaimTexts == {ClaimText(k) : k \in 1..2}

\* The characters of strip('., ')
StripChars == {".", ",", " "}

\* A completion is cut after max_tokens tokens
Truncated(t) == SubSeq(t, 1, IF Len(t) < max_tokens THEN Len(t) ELSE max_tokens)

\* What the model may answer to an assessment prompt: a label, a label with
\* punctuation or whitespace around it, punctuation only, and a sentence that is no
\* label, each cut after max_tokens tokens.
AssessReplies ==
    {Truncated(t) : t \in {<<"True">>, <<"False", ".">>, <<" ", "NEE">>, <<".">>,
                           <<"Not", " ", "enough", " ", "evidence">>}}

\* What the model may answer to the hallucination prompt of a claim: an abstract
\* about the claim, in one of two wordings.
HallucinationReply(claim, wording) ==
    IF wording = 1 THEN <<"Title", ".", " ", "BACKGROUND", " ", claim, ".">>
    ELSE <<" ", "METHODS", ":", " ", claim, ".", " ">>

HallucinationRepliesFor(claim) == {HallucinationReply(claim, w) : w \in 1..2}

RECURSIVE LStrip(_)
LStrip(t) == IF t # <<>> /\ Head(t) \in StripChars THEN LStrip(Tail(t)) ELSE t

RECURSIVE RStrip(_)
RStrip(t) ==
    IF t # <<>> /\ t[Len(t)] \in StripChars THEN RStrip(SubSeq(t, 1, Len(t) - 1)) ELSE t

\* response.choices[0].message.content: the text as a string
Content(reply) == Join("", reply)

\* content.strip('., ')
Strip(reply) == Join("", RStrip(LStrip(reply)))

\* build_prompt(claim): the messages, the examples of the template left out
build_prompt(claim) ==
    <<[role |-> "system", content |-> "assess a scientific claim"],
      [role |-> "user", content |-> "Claim: " \o claim \o " Assessment:"]>>

\* build_prompt_with_context(claim, context)
build_prompt_with_context(claim, context) ==
    <<[role |-> "system", content |-> "assess a scientific claim based on evidence"],
      [role |-> "user",
       content |-> "The evidence is the following: " \o Join(" ", context)
                      \o " Claim: " \o claim \o " Assessment:"]>>

\* build_hallucination_prompt(claim)
build_hallucination_prompt(claim) ==
    <<[role |-> "system", content |-> "write an abstract which supports or refutes a claim"],
      [role |-> "user", content |-> "Claim: " \o claim \o " Abstract:"]>>

ChatFunctions == {"assess_claims", "assess_claims_with_context", "hallucinate_evidence"}

\* As LoopLen, with a loop that stops before the last claim
LoopLenShort ==
    IF a_fn = "assess_claims_with_context" /\ Len(a_contexts) < Len(a_claims)
    THEN Len(a_contexts)
    ELSE IF Len(a_claims) > 0 THEN Len(a_claims) - 1 ELSE 0

\* for claim, context in zip(claims, contexts), or for claim in claims: its length
LoopLen ==
    IF a_fn = "assess_claims_with_context" /\ Len(a_contexts) < Len(a_claims)
    THEN Len(a_contexts) ELSE Len(a_claims)

\* The arguments of client.chat.completions.create in iteration k
Request(k) ==
    CASE a_fn = "assess_claims" ->
            [messages |-> build_prompt(a_claims[k]), max_tokens |-> max_tokens]
      [] a_fn = "assess_claims_with_context" ->
            [messages |-> build_prompt_with_context(a_claims[k], a_contexts[k]),
             max_tokens |-> max_tokens]
      [] a_fn = "hallucinate_evidence" ->
            [messages |-> build_hallucination_prompt(a_claims[k]), max_tokens |-> None]

\* What the model may answer in iteration k
Replies(k) ==
    IF a_fn = "hallucinate_evidence" THEN HallucinationRepliesFor(a_claims[k])
    ELSE AssessReplies

\* if len(context) == 0, with the test inverted
BypassedInverted(k) == a_fn = "assess_claims_with_context" /\ Len(a_contexts[k]) # 0

\* if len(context) == 0: the model is not asked
Bypassed(k) == a_fn = "assess_claims_with_context" /\ Len(a_contexts[k]) = 0

\* The text appended for a hallucination reply, stripped as the assessments are
StrippedHallucination(reply) == Strip(reply)

\* responses.append(response.choices[0].message.content) of hallucinate_evidence
HallucinationResponse(reply) == Content(reply)

\* responses.append(response.choices[0].message.content.strip('., '))
AssessResponse(reply) == Strip(reply)

\* What is appended for a reply
ResponseFor(reply) ==
    IF a_fn = "hallucinate_evidence" THEN HallucinationResponse(reply)
    ELSE AssessResponse(reply)

\* An iteration that does not ask the model: responses.append('NEE'); continue
ChatBypass ==
    /\ a_pc = "loop"
    /\ a_k < LoopLen
    /\ Bypassed(a_k + 1)
    /\ responses' = Append(responses, "NEE")
    /\ a_k' = a_k + 1
    /\ UNCHANGED <<a_pc, a_fn, a_claims, a_contexts, calls, a_ret>>
    /\ UNCHANGED <<filterVars, cmVars, gtVars, loadVars, nbVars>>

\* An iteration that asks the model and appends its answer
ChatAnswer ==
    /\ a_pc = "loop"
    /\ a_k < LoopLen
    /\ ~Bypassed(a_k + 1)
    /\ \E reply \in Replies(a_k + 1) :
          /\ calls' = Append(calls, [position |-> a_k + 1, request |-> Request(a_k + 1),
                                     reply |-> reply])
          /\ responses' = Append(responses, ResponseFor(reply))
    /\ a_k' = a_k + 1
    /\ UNCHANGED <<a_pc, a_fn, a_claims, a_contexts, a_ret>>
    /\ UNCHANGED <<filterVars, cmVars, gtVars, loadVars, nbVars>>

\* As ChatError, with the exception caught inside the loop: the failed call is
\* answered with the indecisive label and the loop goes on to the next claim.
ChatErrorSwallowed ==
    /\ a_pc = "loop" /\ a_k < LoopLen /\ ~Bypassed(a_k + 1)
    /\ calls' = Append(calls, [position |-> a_k + 1, request |-> Request(a_k + 1),
                                reply |-> "APIError"])
    /\ responses' = Append(responses, "NEE")
    /\ a_k' = a_k + 1
    /\ UNCHANGED <<a_pc, a_fn, a_claims, a_contexts, a_ret>>
    /\ UNCHANGED <<filterVars, cmVars, gtVars, loadVars, nbVars>>

\* An iteration whose call raises (the API is not reachable, the request is refused):
\* nothing catches the exception, the function ends without a value
ChatError ==
    /\ a_pc = "loop"
    /\ a_k < LoopLen
    /\ ~Bypassed(a_k + 1)
    /\ calls' = Append(calls, [position |-> a_k + 1, request |-> Request(a_k + 1),
                               reply |-> "APIError"])
    /\ a_pc' = "raised"
    /\ UNCHANGED <<a_fn, a_claims, a_contexts, a_k, responses, a_ret>>
    /\ UNCHANGED <<filterVars, cmVars, gtVars, loadVars, nbVars>>

\* return responses
ChatReturn ==
    /\ a_pc = "loop"
    /\ a_k >= LoopLen
    /\ a_ret' = responses
    /\ a_pc' = "returned"
    /\ UNCHANGED <<a_fn, a_claims, a_contexts, a_k, responses, calls>>
    /\ UNCHANGED <<filterVars, cmVars, gtVars, loadVars, nbVars>>

\* The contexts of a claim: none, one document, two documents
ContextValues ==
    {[j \in 1..m |-> DocumentText(CorpusRow(j))] : m \in 0..2}

InitChat ==
    /\ IdleFilter /\ IdleConfusion /\ IdleGroundtruth /\ IdleLoad /\ IdleNotebook
    /\ a_pc = "loop"
    /\ a_fn \in ChatFunctions
    /\ a_claims \in SeqsUpTo(ClaimTexts, MaxClaims)
    /\ IF a_fn = "assess_claims_with_context"
       THEN a_contexts \in SeqsUpTo(ContextValues, MaxClaims)
       ELSE a_contexts = <<>>
    /\ a_k = 0 /\ responses = <<>> /\ calls = <<>> /\ a_ret = None

NextChat == ChatBypass \/ ChatAnswer \/ ChatError \/ ChatReturn

SpecChat == InitChat /\ [][NextChat]_vars

CallsAt(k) == {c \in DOMAIN calls : calls[c].position = k}

\* C2: in assess_claims_with_context a claim whose context is empty gets the response
\* NEE and no call; a call is issued for a claim if and only if its context is not empty.
C2_EmptyContextBypassesModel ==
    a_fn = "assess_claims_with_context" =>
        /\ \A k \in 1..a_k :
              /\ a_contexts[k] = <<>> => (responses[k] = "NEE" /\ CallsAt(k) = {})
              /\ a_contexts[k] # <<>> => Cardinality(CallsAt(k)) = 1
        /\ \A c \in DOMAIN calls : a_contexts[calls[c].position] # <<>>
        /\ a_pc = "returned" => (a_ret = responses /\ a_k = LoopLen)

\* C2 witness: a returned call in which the first claim had no context and the second
\* had one, with exactly one call issued, for the second.
C2_Witness ==
    /\ a_fn = "assess_claims_with_context"
    /\ a_pc = "returned"
    /\ Len(a_ret) = 2
    /\ a_contexts[1] = <<>>
    /\ a_contexts[2] # <<>>
    /\ a_ret[1] = "NEE"
    /\ Len(calls) = 1
    /\ calls[1].position = 2

\* C4: every element of the lists returned by assess_claims and
\* assess_claims_with_context is one of True, False, NEE, whatever the model answers.
C4_ResponsesAreLabels ==
    (a_pc = "returned" /\ a_fn \in {"assess_claims", "assess_claims_with_context"}) =>
        \A k \in DOMAIN a_ret : a_ret[k] \in Labels

\* C8: hallucinate_evidence issues exactly one call per claim and returns a list as
\* long as claims whose k-th element is the content, unchanged, of the answer to the
\* call made for claims[k].
C8_OneHallucinationPerClaim ==
    (a_fn = "hallucinate_evidence" /\ a_pc = "returned") =>
        /\ Len(a_ret) = Len(a_claims)
        /\ Len(calls) = Len(a_claims)
        /\ \A k \in DOMAIN a_claims :
              /\ calls[k].position = k
              /\ calls[k].request.messages = build_hallucination_prompt(a_claims[k])
              /\ a_ret[k] = Content(calls[k].reply)

\* C8 witness: hallucinate_evidence has returned two different documents for two claims.
C8_Witness ==
    /\ a_fn = "hallucinate_evidence"
    /\ a_pc = "returned"
    /\ Len(a_claims) = 2
    /\ a_claims[1] # a_claims[2]
    /\ a_ret[1] # a_ret[2]
    /\ a_ret[1] = "Title. BACKGROUND claim 1."
    /\ a_ret[2] = " METHODS: claim 2. "

(***************************************************************************)
(* The vector store.  The embedding of a text is a position on a line and  *)
(* the distance of two texts grows with the distance of their positions;   *)
(* a query returns the n_results nearest documents, nearest first.         *)
(***************************************************************************)
Abs(x) == IF x < 0 THEN -x ELSE x

\* The documents of the collection: what the calls of add have put in
CollectionIds == Concat(adds, "ids")
CollectionDocuments == Concat(adds, "documents")

\* The embeddings of the texts the notebook queries with: the claims, and the
\* documents hallucinated for them
EmbeddingTable ==
    {<<ClaimText(k), 14 + 41 * (k - 1)>> : k \in 1..(MaxClaims + 1)}
    \cup {<<Content(HallucinationReply(ClaimText(k), 1)), 10 * k + 10>> : k \in 1..(MaxClaims + 1)}
    \cup {<<Content(HallucinationReply(ClaimText(k), 2)), 10 * k + 5>> : k \in 1..(MaxClaims + 1)}

Embedding(text) == (CHOOSE p \in EmbeddingTable : p[1] = text)[2]

\* The distance of a query text and the j-th document of the collection
Distance(text, j) == 20 + Abs(Embedding(text) - 10 * j)

Nearer(text, i, j) ==
    \/ Distance(text, i) < Distance(text, j)
    \/ Distance(text, i) = Distance(text, j) /\ i < j

RECURSIVE Nearest(_, _, _)
\* The n nearest of the documents in candidates, nearest first
Nearest(text, candidates, n) ==
    IF n = 0 \/ candidates = {} THEN <<>>
    ELSE LET j == CHOOSE i \in candidates : \A o \in candidates \ {i} : Nearer(text, i, o)
         IN  <<j>> \o Nearest(text, candidates \ {j}, n - 1)

\* The three lists of one query text
QueryRow(text, n) ==
    LET found == Nearest(text, DOMAIN CollectionIds, n)
    IN  [ids |-> [r \in DOMAIN found |-> CollectionIds[found[r]]],
         documents |-> [r \in DOMAIN found |-> CollectionDocuments[found[r]]],
         distances |-> [r \in DOMAIN found |-> Distance(text, found[r])]]

\* scifact_corpus_collection.query(query_texts=..., include=['documents', 'distances'],
\* n_results=3): a new object
Query(query_texts, n) == QueryResultOf([q \in DOMAIN query_texts |-> QueryRow(query_texts[q], n)])

(***************************************************************************)
(* The cells of the notebook from the first query on.  The kernel runs one *)
(* cell at a time; a cell may be run whenever no cell is running, in any   *)
(* order and any number of times.  A cell that reads a name not yet        *)
(* defined raises NameError and changes nothing.  The lists an evaluation  *)
(* returns are printed by confusion_matrix and not read again: they are    *)
(* not kept.                                                               *)
(***************************************************************************)
HeapSlots == 1..4

\* A slot for a new object, given the references that stay in use
FreeSlot(used) == CHOOSE r \in HeapSlots : r \notin used /\ \A o \in HeapSlots \ used : r <= o

\* The heap with the objects no name refers to any more dropped
Collected(h, used) == [r \in HeapSlots |-> IF r \in used THEN h[r] ELSE None]

InitNotebook ==
    /\ IdleConfusion /\ IdleGroundtruth /\ IdleChat
    /\ heap = [r \in HeapSlots |-> None]
    /\ f_pc = "idle" /\ f_query_result = 0 /\ f_before = None /\ f_ret = 0
    /\ f_distance_threshold = distance_threshold_default
    /\ corpus_df = [j \in 1..NbCorpus |-> CorpusRow(j)]
    /\ adds = <<AddArguments(Batch(corpus_df, 0))>>
    /\ l_i = batch_size
    /\ l_pc = "done"
    /\ \E n \in 1..MaxClaims : claims = [k \in 1..n |-> ClaimText(k)]
    /\ claim_query_result = 0 /\ filtered_claim_query_result = 0
    /\ hallucinated_query_result = 0 /\ filtered_hallucinated_query_result = 0
    /\ hallucinated_evidence = None
    /\ nb_cell = "idle"

\* A cell starts a call of one of the functions that query the chat model
StartChat(cell, fn, contexts) ==
    /\ nb_cell' = cell
    /\ a_pc' = "loop"
    /\ a_fn' = fn
    /\ a_claims' = claims
    /\ a_contexts' = contexts
    /\ a_k' = 0 /\ responses' = <<>> /\ calls' = <<>> /\ a_ret' = None

\* claim_query_result = scifact_corpus_collection.query(query_texts=claims, ...)
CellClaimQuery ==
    /\ nb_cell = "idle"
    /\ LET used == {filtered_claim_query_result, hallucinated_query_result,
                    filtered_hallucinated_query_result} \ {0}
           r == FreeSlot(used)
       IN  /\ heap' = [Collected(heap, used) EXCEPT ![r] = Query(claims, n_results)]
           /\ claim_query_result' = r
    /\ UNCHANGED <<f_pc, f_query_result, f_distance_threshold, f_before, f_ret>>
    /\ UNCHANGED <<claims, filtered_claim_query_result, hallucinated_query_result,
                   filtered_hallucinated_query_result, hallucinated_evidence, nb_cell>>
    /\ UNCHANGED <<cmVars, gtVars, loadVars, chatVars>>

\* gpt_with_context_evaluation =
\*     assess_claims_with_context(claims, claim_query_result['documents'])
CellContextEvaluation ==
    /\ nb_cell = "idle"
    /\ claim_query_result # 0
    /\ StartChat("gpt_with_context_evaluation", "assess_claims_with_context",
                 heap[claim_query_result].documents)
    /\ UNCHANGED <<claims, claim_query_result, filtered_claim_query_result,
                   hallucinated_query_result, filtered_hallucinated_query_result,
                   hallucinated_evidence>>
    /\ UNCHANGED <<filterVars, cmVars, gtVars, loadVars>>

\* filtered_claim_query_result = filter_query_result(claim_query_result)
CellFilterClaimQuery ==
    /\ nb_cell = "idle"
    /\ claim_query_result # 0
    /\ LET used == {claim_query_result, hallucinated_query_result,
                    filtered_hallucinated_query_result} \ {0}
       IN  heap' = [Collected(heap, used) EXCEPT
                       ![claim_query_result] =
                           Filtered(heap[claim_query_result], distance_threshold_default)]
    /\ filtered_claim_query_result' = claim_query_result
    /\ UNCHANGED <<f_pc, f_query_result, f_distance_threshold, f_before, f_ret>>
    /\ UNCHANGED <<claims, claim_query_result, hallucinated_query_result,
                   filtered_hallucinated_query_result, hallucinated_evidence, nb_cell>>
    /\ UNCHANGED <<cmVars, gtVars, loadVars, chatVars>>

\* gpt_with_filtered_context_evaluation =
\*     assess_claims_with_context(claims, filtered_claim_query_result['documents'])
CellFilteredEvaluation ==
    /\ nb_cell = "idle"
    /\ filtered_claim_query_result # 0
    /\ StartChat("gpt_with_filtered_context_evaluation", "assess_claims_with_context",
                 heap[filtered_claim_query_result].documents)
    /\ UNCHANGED <<claims, claim_query_result, filtered_claim_query_result,
                   hallucinated_query_result, filtered_hallucinated_query_result,
                   hallucinated_evidence>>
    /\ UNCHANGED <<filterVars, cmVars, gtVars, loadVars>>

\* hallucinated_evidence = hallucinate_evidence(claims)
CellHallucinate ==
    /\ nb_cell = "idle"
    /\ StartChat("hallucinated_evidence", "hallucinate_evidence", <<>>)
    /\ UNCHANGED <<claims, claim_query_result, filtered_claim_query_result,
                   hallucinated_query_result, filtered_hallucinated_query_result,
                   hallucinated_evidence>>
    /\ UNCHANGED <<filterVars, cmVars, gtVars, loadVars>>

\* query_texts=claims in the place of query_texts=hallucinated_evidence
RawClaimQueryTexts == claims

\* query_texts=hallucinated_evidence
HallucinatedQueryTexts == hallucinated_evidence

\* hallucinated_query_result = scifact_corpus_collection.query(
\*     query_texts=hallucinated_evidence, ...)
\* filtered_hallucinated_query_result = filter_query_result(hallucinated_query_result)
CellHallucinatedQuery ==
    /\ nb_cell = "idle"
    /\ hallucinated_evidence # None
    /\ LET used == {claim_query_result, filtered_claim_query_result} \ {0}
           r == FreeSlot(used)
       IN  /\ heap' = [Collected(heap, used) EXCEPT
                          ![r] = Filtered(Query(HallucinatedQueryTexts, n_results),
                                          distance_threshold_default)]
           /\ hallucinated_query_result' = r
           /\ filtered_hallucinated_query_result' = r
    /\ UNCHANGED <<f_pc, f_query_result, f_distance_threshold, f_before, f_ret>>
    /\ UNCHANGED <<claims, claim_query_result, filtered_claim_query_result,
                   hallucinated_evidence, nb_cell>>
    /\ UNCHANGED <<cmVars, gtVars, loadVars, chatVars>>

\* gpt_with_hallucinated_context_evaluation = assess_claims_with_context(
\*     claims, filtered_hallucinated_query_result['documents'])
CellHallucinatedEvaluation ==
    /\ nb_cell = "idle"
    /\ filtered_hallucinated_query_result # 0
    /\ StartChat("gpt_with_hallucinated_context_evaluation", "assess_claims_with_context",
                 heap[filtered_hallucinated_query_result].documents)
    /\ UNCHANGED <<claims, claim_query_result, filtered_claim_query_result,
                   hallucinated_query_result, filtered_hallucinated_query_result,
                   hallucinated_evidence>>
    /\ UNCHANGED <<filterVars, cmVars, gtVars, loadVars>>

\* The call of a cell has returned or raised: the value returned is bound to the
\* cell's name (an exception binds nothing), and the locals of the call are gone.
CellEnd ==
    /\ nb_cell # "idle"
    /\ a_pc \in {"returned", "raised"}
    /\ hallucinated_evidence' =
          IF nb_cell = "hallucinated_evidence" /\ a_pc = "returned"
          THEN a_ret ELSE hallucinated_evidence
    /\ nb_cell' = "idle"
    /\ a_pc' = "idle" /\ a_fn' = None /\ a_claims' = <<>> /\ a_contexts' = <<>>
    /\ a_k' = 0 /\ responses' = <<>> /\ calls' = <<>> /\ a_ret' = None
    /\ UNCHANGED <<claims, claim_query_result, filtered_claim_query_result,
                   hallucinated_query_result, filtered_hallucinated_query_result>>
    /\ UNCHANGED <<filterVars, cmVars, gtVars, loadVars>>

NextNotebook ==
    \/ CellClaimQuery
    \/ CellContextEvaluation
    \/ CellFilterClaimQuery
    \/ CellFilteredEvaluation
    \/ CellHallucinate
    \/ CellHallucinatedQuery
    \/ CellHallucinatedEvaluation
    \/ CellEnd
    \/ ChatBypass
    \/ ChatAnswer
    \/ ChatError
    \/ ChatReturn

SpecNotebook == InitNotebook /\ [][NextNotebook]_vars

\* The context the HyDE pipeline owes to a claim: the documents, filtered with the
\* default threshold, of a query made with a document hallucinated for the claim
HydeContexts(claim) ==
    {FilterRow(QueryRow(Content(reply), n_results), distance_threshold_default).documents :
        reply \in HallucinationRepliesFor(claim)}

\* C6: in the HyDE evaluation the context used for claims[k] is the filtered result of
\* the query made with a document hallucinated from claims[k] (not with the claim),
\* and the assessment prompt of index k holds claims[k] and that context.
C6_HydePairing ==
    (nb_cell = "gpt_with_hallucinated_context_evaluation" /\ a_pc # "idle") =>
        /\ a_claims = claims
        /\ Len(a_contexts) = Len(claims)
        /\ \A k \in DOMAIN claims : a_contexts[k] \in HydeContexts(claims[k])
        /\ \A c \in DOMAIN calls :
              calls[c].request.messages =
                  build_prompt_with_context(claims[calls[c].position],
                                            a_contexts[calls[c].position])

\* C6 witness: the HyDE evaluation has asked the model about the second claim, with a
\* context of two documents.
C6_Witness ==
    /\ nb_cell = "gpt_with_hallucinated_context_evaluation"
    /\ a_pc = "returned"
    /\ Len(claims) >= 2
    /\ Len(a_contexts[2]) = 2
    /\ \E c \in DOMAIN calls : calls[c].position = 2 /\ calls[c].reply # "APIError"

\* C10: every context the un-filtered with-context evaluation passes to
\* assess_claims_with_context holds exactly 3 documents, whatever cells ran before.
C10_UnfilteredContextsHoldThree ==
    (nb_cell = "gpt_with_context_evaluation" /\ a_pc # "idle") =>
        \A k \in DOMAIN a_contexts : Len(a_contexts[k]) = n_results

\* The documents of query q of an object whose distance fails the test of the filter
RemovedDocuments(obj, q) ==
    {obj.documents[q][j] : j \in {i \in DOMAIN obj.documents[q] :
                                     Removed(obj.distances[q][i], distance_threshold_default)}}

Elements(list) == {list[j] : j \in DOMAIN list}

\* The keys of a query result that filter_query_result does not touch
OtherKeys(obj) == DOMAIN obj \ {"ids", "documents", "distances"}

\* The steps of the cell filtered_claim_query_result =
\* filter_query_result(claim_query_result), told by the names: the cell is the only
\* one that runs to its end in one step, keeps claim_query_result and leaves
\* filtered_claim_query_result equal to it.
FilterClaimQueryStep ==
    /\ nb_cell = "idle" /\ nb_cell' = "idle"
    /\ claim_query_result # 0
    /\ claim_query_result' = claim_query_result
    /\ filtered_claim_query_result' = claim_query_result
    /\ UNCHANGED <<hallucinated_query_result, filtered_hallucinated_query_result>>

C12_BaselineOneCallPerClaimInOrder ==
    (a_fn = "assess_claims" /\ a_pc \in {"loop", "raised", "returned"}) =>
        /\ \A c \in DOMAIN calls :
              /\ calls[c].position = c
              /\ calls[c].request.messages = build_prompt(a_claims[c])
              /\ Len(responses) >= c - 1
        /\ Len(responses) = a_k
        /\ Len(calls) = IF a_pc = "raised" THEN a_k + 1 ELSE a_k
        /\ \A c \in DOMAIN responses : responses[c] = Strip(calls[c].reply)
        /\ a_pc = "returned" =>
              /\ a_ret = responses
              /\ Len(a_ret) = Len(a_claims)
              /\ Len(calls) = Len(a_claims)
              /\ \A k \in DOMAIN a_claims : Cardinality(CallsAt(k)) = 1

\* C12 witness: assess_claims has returned the responses to two claims, made from two
\* calls with different replies.
C12_Witness ==
    /\ a_fn = "assess_claims" /\ a_pc = "returned"
    /\ Len(a_claims) = 2 /\ Len(calls) = 2 /\ Len(a_ret) = 2
    /\ calls[1].reply # calls[2].reply
    /\ a_ret[1] # a_ret[2]

\* The calls of chat.completions.create that raised
FailedCalls == {c \in DOMAIN calls : calls[c].reply = "APIError"}

\* C13: in assess_claims, assess_claims_with_context and hallucinate_evidence no claim
\* is sent to the model twice, and a call that failed is the last call made: the
\* function has been left by the exception, the claims after the failed one have not
\* been sent, and nothing has been returned, the responses collected so far included.
C13_NoRetryNoRecovery ==
    a_fn \in ChatFunctions =>
        /\ \A k \in 1..Len(a_claims) : Cardinality(CallsAt(k)) <= 1
        /\ \A c \in FailedCalls :
              /\ c = Len(calls)
              /\ a_pc = "raised"
              /\ a_ret = None
              /\ calls[c].position = a_k + 1
              /\ \A d \in DOMAIN calls : calls[d].position <= calls[c].position
              /\ Len(responses) = a_k
        /\ a_pc = "raised" => FailedCalls # {}
        /\ a_pc = "returned" => (FailedCalls = {} /\ a_ret = responses)

\* C13 witness: the call for the first of two claims failed; the function was left
\* without a value and the second claim was never sent.
C13_Witness ==
    /\ a_fn \in ChatFunctions /\ a_pc = "raised"
    /\ Len(a_claims) = 2
    /\ Len(calls) = 1 /\ calls[1].reply = "APIError" /\ calls[1].position = 1
    /\ CallsAt(2) = {}
    /\ a_ret = None

====
